---- MODULE Spec2Model ----
(***************************************************************************)
(* Model of code_analyzer.py (class CodeAnalyzer and main).                *)
(*                                                                         *)
(* Text is modelled as a sequence of tokens: a token is a piece of a       *)
(* Python string, chosen so that the word "failed" (in any letter case)    *)
(* is always a token of its own.  The history file is modelled as the      *)
(* sequence of JSON tokens json.dump writes and json.load parses.          *)
(***************************************************************************)
EXTENDS Integers, Sequences, FiniteSets, TLC

(***************************************************************************)
(* Bounds of the model.                                                    *)
(***************************************************************************)
\* greatest number of test_ names one test file defines
MaxTests == 2
\* greatest number of save_to_history calls of one history run
MaxSaves == 3

(***************************************************************************)
(* Text.                                                                   *)
(***************************************************************************)
\* str.lower() on one token
LowerTok(t) ==
    CASE t = "FAILED" -> "failed"
      [] t = "Failed" -> "failed"
      [] t = "Test " -> "test "
      [] OTHER -> t

\* str.lower()
Lower(s) == [i \in 1..Len(s) |-> LowerTok(s[i])]

\* "failed" in s
ContainsFailed(s) == \E i \in 1..Len(s) : s[i] = "failed"

\* name.startswith('test_')
StartsWithTest(name) == Len(name) >= 1 /\ name[1] = "test_"

\* "\n".join(lines)
RECURSIVE JoinLines(_)
JoinLines(lines) ==
    IF lines = << >> THEN << >>
    ELSE IF Len(lines) = 1 THEN lines[1]
    ELSE lines[1] \o <<"\n">> \o JoinLines(Tail(lines))

(***************************************************************************)
(* Test files.  dir(test_module) lists the module's names in sorted order; *)
(* every module has names that are no tests (__name__, imported modules).  *)
(***************************************************************************)
NameDunder == <<"__name__">>
NameTestA == <<"test_", "a">>
NameTestFailedLogin == <<"test_", "failed", "_login">>
NameTestZ == <<"test_", "z">>
NameTime == <<"time">>

\* all names a module of the model can hold, in the order dir() lists them
SortedNames == <<NameDunder, NameTestA, NameTestFailedLogin, NameTestZ, NameTime>>

TestNames == {NameTestA, NameTestFailedLogin, NameTestZ}

\* what calling a test_ attribute does: return a value, raise an Exception
\* with a message, raise an Exception whose str() is empty (a bare assert),
\* raise a BaseException that is no Exception (SystemExit, pytest.fail)
Behaviours == {"return_none", "return_false", "raise_msg", "raise_empty", "raise_base"}

Returns(b) == b \in {"return_none", "return_false"}
RaisesException(b) == b \in {"raise_msg", "raise_empty"}

\* str(e) of the exception a test raises
ExcMessage(b) == IF b = "raise_msg" THEN <<"x">> ELSE << >>

\* test files: missing, failing to load (syntax error or top-level raise),
\* or loading and defining at most MaxTests test_ names
OkFiles ==
    UNION {{[kind |-> "ok", tests |-> f] : f \in [S -> Behaviours]} :
           S \in {T \in SUBSET TestNames : Cardinality(T) <= MaxTests}}

TestFiles == OkFiles \cup {[kind |-> "missing", tests |-> << >>],
                            [kind |-> "broken", tests |-> << >>]}

\* dir(test_module)
Dir(file) ==
    SelectSeq(SortedNames, LAMBDA n : n \notin TestNames \/ n \in DOMAIN file.tests)

\* os.path.exists(test_file)
FileExists(file) == file.kind # "missing"

(***************************************************************************)
(* The history file (performance_history.json) and JSON.                   *)
(* A profile record is kept by the two fields the history code reads to    *)
(* tell records apart: test_file and timestamp.                            *)
(***************************************************************************)
Paths == <<"a.py", "b.py">>
PathSet == {Paths[i] : i \in 1..Len(Paths)}

\* datetime.now().isoformat() at clock tick n
Stamp(n) == ToString(n)

JsonPunct == {"[", "]", "{", "}", ","}

\* json.dump of one profile record
DumpRecord(rec) == <<"{", rec.test_file, rec.timestamp, "}">>

\* json.dump(history, f, indent=2) of a list of profile records
RECURSIVE DumpItems(_)
DumpItems(history) ==
    IF history = << >> THEN << >>
    ELSE IF Len(history) = 1 THEN DumpRecord(history[1])
    ELSE DumpRecord(history[1]) \o <<",">> \o DumpItems(Tail(history))

JsonDump(history) == <<"[">> \o DumpItems(history) \o <<"]">>

\* the items between the brackets of a JSON array of profile records
RECURSIVE ParseItems(_)
ParseItems(toks) ==
    IF toks = << >> THEN [ok |-> TRUE, value |-> << >>]
    ELSE IF /\ Len(toks) >= 4
            /\ toks[1] = "{"
            /\ toks[2] \notin JsonPunct
            /\ toks[3] \notin JsonPunct
            /\ toks[4] = "}"
         THEN LET rec == [test_file |-> toks[2], timestamp |-> toks[3]]
              IN  IF Len(toks) = 4 THEN [ok |-> TRUE, value |-> <<rec>>]
                  ELSE IF Len(toks) > 5 /\ toks[5] = ","
                       THEN LET rest == ParseItems(SubSeq(toks, 6, Len(toks)))
                            IN  [ok |-> rest.ok,
                                 value |-> IF rest.ok THEN <<rec>> \o rest.value ELSE << >>]
                       ELSE [ok |-> FALSE, value |-> << >>]
         ELSE [ok |-> FALSE, value |-> << >>]

\* json.load(f): ok is FALSE when it raises JSONDecodeError; islist tells a
\* JSON array from another JSON value (here the empty object {})
JsonLoad(toks) ==
    IF toks = <<"{", "}">> THEN [ok |-> TRUE, islist |-> FALSE, value |-> << >>]
    ELSE IF Len(toks) >= 2 /\ toks[1] = "[" /\ toks[Len(toks)] = "]"
         THEN LET items == ParseItems(SubSeq(toks, 2, Len(toks) - 1))
              IN  [ok |-> items.ok, islist |-> TRUE, value |-> items.value]
         ELSE [ok |-> FALSE, islist |-> FALSE, value |-> << >>]

NoFile == [exists |-> FALSE, content |-> << >>]
FileWith(toks) == [exists |-> TRUE, content |-> toks]

\* a bug: the new record is put in front of the series
HistoryPrepend(history, rec) == <<rec>> \o history

\* history.append(profile_data)
HistoryAppend(history, rec) == Append(history, rec)

\* a bug: a history file that cannot be used is replaced by a fresh series
SaveToHistoryRepairing(hf, rec) ==
    LET loaded == JsonLoad(hf.content)
        history == IF hf.exists /\ loaded.ok /\ loaded.islist THEN loaded.value ELSE << >>
    IN  [raised |-> "none", file |-> FileWith(JsonDump(Append(history, rec)))]

\* save_to_history(profile_data) run without interruption: the exception it
\* raises ("none" when it returns) and the history file it leaves
SaveToHistory(hf, rec) ==
    IF ~hf.exists
    THEN [raised |-> "none", file |-> FileWith(JsonDump(HistoryAppend(<< >>, rec)))]
    ELSE LET loaded == JsonLoad(hf.content)
         IN  IF ~loaded.ok THEN [raised |-> "JSONDecodeError", file |-> hf]
             ELSE IF ~loaded.islist THEN [raised |-> "AttributeError", file |-> hf]
             ELSE [raised |-> "none",
                   file |-> FileWith(JsonDump(HistoryAppend(loaded.value, rec)))]

\* plot_performance_history(test_file): the exception raised, the records
\* kept by the filter and the message returned
PlotPerformanceHistory(hf, path) ==
    IF ~hf.exists
    THEN [raised |-> "none", rows |-> << >>, message |-> "No history data available"]
    ELSE LET loaded == JsonLoad(hf.content)
             rows == SelectSeq(loaded.value, LAMBDA h : h.test_file = path)
         IN  IF ~loaded.ok
             THEN [raised |-> "JSONDecodeError", rows |-> << >>, message |-> ""]
             ELSE IF rows = << >>
             THEN [raised |-> "none", rows |-> << >>,
                   message |-> "No history data available for this test file"]
             ELSE [raised |-> "none", rows |-> rows,
                   message |-> "Performance history plot saved"]

\* a record left in the file by an earlier invocation
OldRecord == [test_file |-> Paths[1], timestamp |-> Stamp(0)]

\* history files an invocation can find: none, well-formed ones, and ones
\* json.load rejects or that hold no array
WellFormedFiles == {NoFile, FileWith(JsonDump(<< >>)), FileWith(JsonDump(<<OldRecord>>))}
MalformedFiles ==
    {FileWith(<< >>),
     FileWith(SubSeq(JsonDump(<<OldRecord>>), 1, 4)),
     FileWith(<<"{", "}">>)}

(***************************************************************************)
(* State.                                                                  *)
(***************************************************************************)
VARIABLES
    \* one command-line invocation (main)
    mode,          \* "single", "compare" or "patterns" (args.compare, args.patterns)
    files,         \* files[1] is args.test_file, files[2] is args.compare
    pc,            \* position of the invocation
    cur,           \* which file run_test_with_profiling is running on
    tracing,       \* tracemalloc is tracing (process-wide)
    profiling,     \* the cProfile profiler is enabled (process-wide)
    idx,           \* position of the for loop in dir(test_module)
    test_output,   \* the list test_output of the current run
    outcomes,      \* per recorded line, the branch that recorded it
    invoked,       \* the test_ names whose attribute was called, in call order
    events,        \* instrumentation events of the current run, in order
    run_state,     \* "idle", "running", "returned" or "raised" for the latest run
    profiles,      \* the profile records returned so far
    result,        \* what the analyzer method returned to main
    raised,        \* the exception that reached main's handler, or "none"
    exitcode,      \* what main returned, -1 while it runs
    remote,        \* how the remote analysis call ended, "none" before it
    \* the history file and the calls made on it
    history_file,
    clock,         \* ticks of datetime.now()
    expected,      \* the records put into the file, in the order they were put
    saves,         \* number of save_to_history calls made
    save_result,   \* exception of the latest save_to_history, "none" if it returned
    query_result,  \* what the latest plot_performance_history got
    \* processes running save_to_history at the same time
    rpc,           \* position of each process in save_to_history
    rlocal,        \* each process's list history
    rsnap,         \* what each process found when it read the file
    rrec,          \* the record each process appends
    rraised        \* the exception each process's call raised, or "none"

mainVars == <<mode, files, pc, cur, tracing, profiling, idx, test_output, outcomes,
              invoked, events, run_state, profiles, result, raised, exitcode, remote>>
histVars == <<history_file, clock, expected, saves, save_result, query_result>>
raceVars == <<rpc, rlocal, rsnap, rrec, rraised>>
vars == <<mainVars, histVars, raceVars>>

Procs == {1, 2}

NoResult == [ready |-> FALSE, profiles |-> << >>, analysis |-> "", test_status |-> ""]
NoQuery == [path |-> "", raised |-> "none", rows |-> << >>, message |-> ""]

\* no command-line invocation is running
MainIdle ==
    /\ mode = "none" /\ files = << >> /\ pc = "idle" /\ cur = 0
    /\ tracing = FALSE /\ profiling = FALSE /\ idx = 0
    /\ test_output = << >> /\ outcomes = << >> /\ invoked = << >> /\ events = << >>
    /\ run_state = "idle" /\ profiles = << >> /\ result = NoResult
    /\ raised = "none" /\ exitcode = -1 /\ remote = "none"

\* no concurrent save_to_history is running
RaceIdle ==
    /\ rpc = [p \in Procs |-> "idle"]
    /\ rlocal = [p \in Procs |-> << >>]
    /\ rsnap = [p \in Procs |-> << >>]
    /\ rrec = [p \in Procs |-> OldRecord]
    /\ rraised = [p \in Procs |-> "none"]

(***************************************************************************)
(* One process calling save_to_history and plot_performance_history.       *)
(***************************************************************************)
\* the records a well-formed file is found with
OldHistories == {<< >>, <<OldRecord>>}

HistoryInit ==
    /\ MainIdle /\ RaceIdle
    /\ clock = 1 /\ saves = 0 /\ save_result = "none" /\ query_result = NoQuery
    /\ \/ history_file = NoFile /\ expected = << >>
       \/ \E old \in OldHistories :
             history_file = FileWith(JsonDump(old)) /\ expected = old
       \/ history_file \in MalformedFiles /\ expected = << >>

\* save_to_history(profile_data) for a record of test file path
HistorySave(path) ==
    /\ saves < MaxSaves
    /\ LET rec == [test_file |-> path, timestamp |-> Stamp(clock)]
           r == SaveToHistory(history_file, rec)
       IN  /\ history_file' = r.file
           /\ save_result' = r.raised
           /\ expected' = IF r.raised = "none" THEN Append(expected, rec) ELSE expected
    /\ clock' = clock + 1
    /\ saves' = saves + 1
    /\ UNCHANGED <<query_result, mainVars, raceVars>>

\* plot_performance_history(path)
HistoryQuery(path) ==
    /\ LET q == PlotPerformanceHistory(history_file, path)
       IN  query_result' = [path |-> path, raised |-> q.raised,
                            rows |-> q.rows, message |-> q.message]
    /\ UNCHANGED <<history_file, clock, expected, saves, save_result, mainVars, raceVars>>

HistoryNext ==
    \/ \E path \in PathSet : HistorySave(path)
    \/ \E path \in PathSet : HistoryQuery(path)

SpecHistory == HistoryInit /\ [][HistoryNext]_vars

(***************************************************************************)
(* Claims about the history file in one process.                           *)
(***************************************************************************)
\* the history file holds a JSON array of profile records
WellFormed(hf) ==
    hf.exists /\ JsonLoad(hf.content).ok /\ JsonLoad(hf.content).islist

\* C3: starting from no history file or a well-formed one, every
\* save_to_history returns, and filtering the persisted series by a test_file
\* value gives exactly the records put in for that path (those the file
\* started with, then those appended), in the order they were put in; the
\* latest plot_performance_history read exactly those records.
HistoryRoundTrip ==
    (history_file = NoFile \/ WellFormed(history_file)) =>
        /\ save_result = "none"
        /\ \A path \in PathSet :
              PlotPerformanceHistory(history_file, path).rows
                  = SelectSeq(expected, LAMBDA r : r.test_file = path)
        /\ (saves > 0 => /\ WellFormed(history_file)
                         /\ JsonLoad(history_file.content).value = expected
                         /\ expected[Len(expected)].timestamp = Stamp(clock - 1))

\* three appends, two for one path with one for another path between them,
\* read back by a query
HistoryRoundTripWitness ==
    /\ saves = 3
    /\ Len(expected) >= 3
    /\ expected[Len(expected)].test_file = Paths[1]
    /\ expected[Len(expected) - 1].test_file = Paths[2]
    /\ expected[Len(expected) - 2].test_file = Paths[1]
    /\ query_result.path = Paths[1]
    /\ Len(query_result.rows) >= 2
    /\ query_result.rows = SelectSeq(expected, LAMBDA r : r.test_file = Paths[1])

\* the history file exists and json.load or history.append fails on it
Malformed(hf) == hf.exists /\ ~WellFormed(hf)

\* C6: a save_to_history call that finds the history file present but not
\* well-formed raises an error and leaves the file exactly as it was.
MalformedHistoryUntouched ==
    [][(saves' = saves + 1 /\ Malformed(history_file)) =>
          (history_file' = history_file /\ save_result' # "none"
           /\ expected' = expected)]_vars

\* save_to_history has been called on a malformed file
MalformedHistoryWitness ==
    /\ saves >= 1
    /\ save_result \in {"JSONDecodeError", "AttributeError"}
    /\ history_file \in MalformedFiles

(***************************************************************************)
(* Two processes in save_to_history on the same history file.  The steps   *)
(* of one call: os.path.exists, open 'r' with json.load, history.append    *)
(* with open 'w' (which empties the file), json.dump with the close.       *)
(***************************************************************************)
RaceInit ==
    /\ MainIdle
    /\ history_file \in WellFormedFiles \cup MalformedFiles
    /\ clock = 1 /\ expected = << >> /\ saves = 0
    /\ save_result = "none" /\ query_result = NoQuery
    /\ rpc = [p \in Procs |-> "exists"]
    /\ rlocal = [p \in Procs |-> << >>]
    /\ rsnap = [p \in Procs |-> << >>]
    /\ rrec \in [Procs -> {[test_file |-> path, timestamp |-> Stamp(p)] :
                             path \in PathSet, p \in Procs}]
    /\ \A p \in Procs : rrec[p].timestamp = Stamp(p)
    /\ rraised = [p \in Procs |-> "none"]

\* a bug: the series written is read afresh from the file just before writing
FreshSeries(history, rec, hf) ==
    LET loaded == JsonLoad(hf.content)
    IN  IF hf.exists /\ loaded.ok /\ loaded.islist
        THEN HistoryAppend(loaded.value, rec)
        ELSE HistoryAppend(history, rec)

\* the series a call writes: the list it loaded earlier with its record
\* appended; what the file holds by now is not looked at
WrittenSeries(history, rec, hf) == HistoryAppend(history, rec)

\* history = []; if os.path.exists(self.history_file):
RaceExists(p) ==
    /\ rpc[p] = "exists"
    /\ rpc' = [rpc EXCEPT ![p] = IF history_file.exists THEN "load" ELSE "write"]
    /\ UNCHANGED <<rlocal, rsnap, rrec, rraised, histVars, mainVars>>

\* with open(self.history_file, 'r') as f: history = json.load(f)
RaceLoad(p) ==
    /\ rpc[p] = "load"
    /\ LET loaded == JsonLoad(history_file.content)
       IN  IF ~loaded.ok
           THEN /\ rpc' = [rpc EXCEPT ![p] = "raised"]
                /\ rraised' = [rraised EXCEPT ![p] = "JSONDecodeError"]
                /\ UNCHANGED <<rlocal, rsnap>>
           ELSE IF ~loaded.islist
           THEN /\ rpc' = [rpc EXCEPT ![p] = "append_fails"]
                /\ UNCHANGED <<rlocal, rsnap, rraised>>
           ELSE /\ rpc' = [rpc EXCEPT ![p] = "write"]
                /\ rlocal' = [rlocal EXCEPT ![p] = loaded.value]
                /\ rsnap' = [rsnap EXCEPT ![p] = loaded.value]
                /\ UNCHANGED rraised
    /\ UNCHANGED <<rrec, histVars, mainVars>>

\* history.append(profile_data) on a value that is no list
RaceAppendFails(p) ==
    /\ rpc[p] = "append_fails"
    /\ rpc' = [rpc EXCEPT ![p] = "raised"]
    /\ rraised' = [rraised EXCEPT ![p] = "AttributeError"]
    /\ UNCHANGED <<rlocal, rsnap, rrec, histVars, mainVars>>

\* history.append(profile_data); with open(self.history_file, 'w') as f:
RaceOpenWrite(p) ==
    /\ rpc[p] = "write"
    /\ rlocal' = [rlocal EXCEPT ![p] = WrittenSeries(rlocal[p], rrec[p], history_file)]
    /\ history_file' = FileWith(<< >>)
    /\ rpc' = [rpc EXCEPT ![p] = "dump"]
    /\ UNCHANGED <<rsnap, rrec, rraised, clock, expected, saves, save_result,
                   query_result, mainVars>>

\* json.dump(history, f, indent=2) and the close of the file
RaceDump(p) ==
    /\ rpc[p] = "dump"
    /\ history_file' = FileWith(JsonDump(rlocal[p]))
    /\ rpc' = [rpc EXCEPT ![p] = "done"]
    /\ UNCHANGED <<rlocal, rsnap, rrec, rraised, clock, expected, saves, save_result,
                   query_result, mainVars>>

RaceNext ==
    \E p \in Procs :
        \/ RaceExists(p)
        \/ RaceLoad(p)
        \/ RaceAppendFails(p)
        \/ RaceOpenWrite(p)
        \/ RaceDump(p)

SpecRace == RaceInit /\ [][RaceNext]_vars

\* C10: when two concurrent save_to_history calls have both returned, the
\* file holds what one of them read plus that one's record (last write
\* wins); if both read the file before either wrote, the file holds one
\* record more than they read, so one of the two appended records is lost.
LastWriteWins ==
    (\A p \in Procs : rpc[p] = "done") =>
        /\ \E p \in Procs :
              history_file = FileWith(JsonDump(Append(rsnap[p], rrec[p])))
        /\ (rsnap[1] = rsnap[2] =>
               Len(JsonLoad(history_file.content).value) = Len(rsnap[1]) + 1)

\* both calls returned, the file was not empty at the start, and the record
\* of process 1 is not in the file
LostUpdateWitness ==
    /\ \A p \in Procs : rpc[p] = "done" /\ rraised[p] = "none"
    /\ rsnap[1] = <<OldRecord>> /\ rsnap[2] = <<OldRecord>>
    /\ JsonLoad(history_file.content).value = <<OldRecord, rrec[2]>>
    /\ \A i \in 1..Len(JsonLoad(history_file.content).value) :
          JsonLoad(history_file.content).value[i] # rrec[1]

(***************************************************************************)
(* One command-line invocation: main, the three analyzer methods it can    *)
(* call, and run_test_with_profiling.                                      *)
(***************************************************************************)
Modes == {"single", "compare", "patterns"}

\* how requests.post, raise_for_status and response.json()["response"] end
RemoteOutcomes == {"ok", "connection_error", "http_error", "bad_body"}

\* history files a command-line invocation is started with
MainHistoryFiles ==
    {NoFile, FileWith(JsonDump(<<OldRecord>>)), FileWith(SubSeq(JsonDump(<<OldRecord>>), 1, 4))}

Init ==
    /\ RaceIdle
    /\ mode \in Modes
    /\ \E f1 \in TestFiles, f2 \in TestFiles :
          /\ mode # "compare" => f2 = [kind |-> "missing", tests |-> << >>]
          /\ files = <<f1, f2>>
    \* compare_implementations never saves; its invocations start without a file
    /\ history_file \in MainHistoryFiles
    /\ mode = "compare" => history_file = NoFile
    /\ expected = IF WellFormed(history_file) THEN <<OldRecord>> ELSE << >>
    /\ clock = 1 /\ saves = 0 /\ save_result = "none" /\ query_result = NoQuery
    /\ pc = "main" /\ cur = 1
    /\ tracing = FALSE /\ profiling = FALSE /\ idx = 0
    /\ test_output = << >> /\ outcomes = << >> /\ invoked = << >> /\ events = << >>
    /\ run_state = "idle" /\ profiles = << >> /\ result = NoResult
    /\ raised = "none" /\ exitcode = -1 /\ remote = "none"

\* an instrumentation event, with the state of the two instruments when it happens
Event(e) == [e |-> e, tracing |-> tracing, profiling |-> profiling]

\* f"Test {name} passed"
PassedLine(name) == <<"Test ">> \o name \o <<" ", "passed">>

\* f"Test {name} failed: {str(e)}"
FailedLine(name, msg) == <<"Test ">> \o name \o <<" ", "failed", ": ">> \o msg

\* the exception an unloadable file makes spec.loader.exec_module raise
LoadException(file) == IF file.kind = "missing" THEN "FileNotFoundError" ELSE "LoadError"

\* main's dispatch (lines 377-382) and the check that opens analyze_test_code
MainStart ==
    /\ pc = "main"
    /\ IF mode = "single" /\ ~FileExists(files[1])
       THEN /\ pc' = "handler"
            /\ raised' = "FileNotFoundError"
       ELSE /\ pc' = "trace_start"
            /\ UNCHANGED raised
    /\ UNCHANGED <<mode, files, cur, tracing, profiling, idx, test_output, outcomes,
                   invoked, events, run_state, profiles, result, exitcode, remote,
                   histVars, raceVars>>

\* tracemalloc.start()
TraceStart ==
    /\ pc = "trace_start"
    /\ tracing' = TRUE
    /\ events' = <<Event("trace_start")>>
    /\ run_state' = "running"
    /\ test_output' = << >> /\ outcomes' = << >> /\ invoked' = << >> /\ idx' = 0
    /\ pc' = "load"
    /\ UNCHANGED <<mode, files, cur, profiling, profiles, result, raised, exitcode,
                   remote, histVars, raceVars>>

\* spec_from_file_location, module_from_spec, spec.loader.exec_module
LoadModule ==
    /\ pc = "load"
    /\ IF files[cur].kind = "ok"
       THEN /\ pc' = "enable"
            /\ UNCHANGED <<run_state, raised>>
       ELSE /\ pc' = "handler"
            /\ run_state' = "raised"
            /\ raised' = LoadException(files[cur])
    /\ UNCHANGED <<mode, files, cur, tracing, profiling, idx, test_output, outcomes,
                   invoked, events, profiles, result, exitcode, remote,
                   histVars, raceVars>>

\* a bug: the profiler is created and never enabled
EnableProfilerForgotten ==
    /\ pc = "enable"
    /\ pc' = "start_time"
    /\ events' = Append(events, Event("profile_start"))
    /\ UNCHANGED <<mode, files, cur, tracing, profiling, idx, test_output, outcomes,
                   invoked, run_state, profiles, result, raised, exitcode, remote,
                   histVars, raceVars>>

\* pr = cProfile.Profile(); pr.enable()
EnableProfiler ==
    /\ pc = "enable"
    /\ profiling' = TRUE
    /\ events' = Append(events, Event("profile_start"))
    /\ pc' = "start_time"
    /\ UNCHANGED <<mode, files, cur, tracing, idx, test_output, outcomes, invoked,
                   run_state, profiles, result, raised, exitcode, remote,
                   histVars, raceVars>>

\* test_output = []; start_time = time.time()
RecordStart ==
    /\ pc = "start_time"
    /\ test_output' = << >>
    /\ events' = Append(events, Event("start_time"))
    /\ idx' = 1
    /\ pc' = "loop"
    /\ UNCHANGED <<mode, files, cur, tracing, profiling, outcomes, invoked, run_state,
                   profiles, result, raised, exitcode, remote, histVars, raceVars>>

\* one turn of the for loop on a name without the prefix test_
LoopSkip ==
    /\ pc = "loop"
    /\ idx <= Len(Dir(files[cur]))
    /\ ~StartsWithTest(Dir(files[cur])[idx])
    /\ idx' = idx + 1
    /\ UNCHANGED <<mode, files, pc, cur, tracing, profiling, test_output, outcomes,
                   invoked, events, run_state, profiles, result, raised, exitcode,
                   remote, histVars, raceVars>>

\* one turn of the for loop on a test_ name: the call, and the line appended
LoopTest ==
    /\ pc = "loop"
    /\ idx <= Len(Dir(files[cur]))
    /\ StartsWithTest(Dir(files[cur])[idx])
    /\ LET name == Dir(files[cur])[idx]
           b == files[cur].tests[name]
       IN  /\ invoked' = Append(invoked, name)
           /\ events' = Append(events, Event("test"))
           /\ IF Returns(b)
              THEN /\ test_output' = Append(test_output, PassedLine(name))
                   /\ outcomes' = Append(outcomes,
                          [name |-> name, status |-> "passed", detail |-> << >>])
                   /\ idx' = idx + 1
                   /\ UNCHANGED <<pc, run_state, raised>>
              ELSE IF RaisesException(b)
              THEN /\ test_output' = Append(test_output, FailedLine(name, ExcMessage(b)))
                   /\ outcomes' = Append(outcomes,
                          [name |-> name, status |-> "failed", detail |-> ExcMessage(b)])
                   /\ idx' = idx + 1
                   /\ UNCHANGED <<pc, run_state, raised>>
              ELSE \* no handler on the way catches it: not line 53, not line 406
                   /\ pc' = "aborted"
                   /\ run_state' = "raised"
                   /\ raised' = "BaseException"
                   /\ UNCHANGED <<test_output, outcomes, idx>>
    /\ UNCHANGED <<mode, files, cur, tracing, profiling, profiles, result, exitcode,
                   remote, histVars, raceVars>>

\* the loop is over: end_time = time.time()
LoopEnd ==
    /\ pc = "loop"
    /\ idx > Len(Dir(files[cur]))
    /\ events' = Append(events, Event("end_time"))
    /\ pc' = "disable"
    /\ UNCHANGED <<mode, files, cur, tracing, profiling, idx, test_output, outcomes,
                   invoked, run_state, profiles, result, raised, exitcode, remote,
                   histVars, raceVars>>

\* pr.disable()
DisableProfiler ==
    /\ pc = "disable"
    /\ profiling' = FALSE
    /\ events' = Append(events, Event("profile_stop"))
    /\ pc' = "get_memory"
    /\ UNCHANGED <<mode, files, cur, tracing, idx, test_output, outcomes, invoked,
                   run_state, profiles, result, raised, exitcode, remote,
                   histVars, raceVars>>

\* current, peak = tracemalloc.get_traced_memory()
GetTracedMemory ==
    /\ pc = "get_memory"
    /\ events' = Append(events, Event("read_memory"))
    /\ pc' = "trace_stop"
    /\ UNCHANGED <<mode, files, cur, tracing, profiling, idx, test_output, outcomes,
                   invoked, run_state, profiles, result, raised, exitcode, remote,
                   histVars, raceVars>>

\* tracemalloc.stop()
TraceStop ==
    /\ pc = "trace_stop"
    /\ tracing' = FALSE
    /\ events' = Append(events, Event("trace_stop"))
    /\ pc' = "build"
    /\ UNCHANGED <<mode, files, cur, profiling, idx, test_output, outcomes, invoked,
                   run_state, profiles, result, raised, exitcode, remote,
                   histVars, raceVars>>

\* the statistics text and the returned dict (lines 63-78); the caller goes on
BuildRecord ==
    /\ pc = "build"
    /\ profiles' = Append(profiles,
           [test_file |-> Paths[cur], test_output |-> JoinLines(test_output),
            timestamp |-> Stamp(clock), outcomes |-> outcomes])
    /\ clock' = clock + 1
    /\ run_state' = "returned"
    /\ pc' = CASE mode = "single" -> "save"
               [] mode = "patterns" -> "llm"
               [] mode = "compare" /\ cur = 1 -> "second"
               [] OTHER -> "llm"
    /\ UNCHANGED <<mode, files, cur, tracing, profiling, idx, test_output, outcomes,
                   invoked, events, result, raised, exitcode, remote,
                   history_file, expected, saves, save_result, query_result, raceVars>>

\* profile2 = self.run_test_with_profiling(test_file2): a new call, with
\* its own locals
SecondRun ==
    /\ pc = "second"
    /\ cur' = 2
    /\ run_state' = "idle"
    /\ test_output' = << >> /\ outcomes' = << >> /\ invoked' = << >>
    /\ events' = << >> /\ idx' = 0
    /\ pc' = "trace_start"
    /\ UNCHANGED <<mode, files, tracing, profiling, profiles, result, raised,
                   exitcode, remote, histVars, raceVars>>

\* if save_history: self.save_to_history(profile_data)
SaveProfile ==
    /\ pc = "save"
    /\ LET rec == [test_file |-> profiles[1].test_file,
                   timestamp |-> profiles[1].timestamp]
           r == SaveToHistory(history_file, rec)
       IN  /\ history_file' = r.file
           /\ save_result' = r.raised
           /\ expected' = IF r.raised = "none" THEN Append(expected, rec) ELSE expected
           /\ raised' = r.raised
           /\ pc' = IF r.raised = "none" THEN "llm" ELSE "handler"
    /\ saves' = saves + 1
    /\ UNCHANGED <<mode, files, cur, tracing, profiling, idx, test_output, outcomes,
                   invoked, events, run_state, profiles, result, exitcode, remote,
                   clock, query_result, raceVars>>

\* a bug: the remote call is made outside any try block
AnalyzeWithLlmUncaught(outcome) ==
    IF outcome = "ok" THEN [raised |-> "none", text |-> "response"]
    ELSE [raised |-> "RequestException", text |-> ""]

\* the try block of analyze_with_llm (lines 142-154): what it raises and returns
AnalyzeWithLlm(outcome) ==
    [raised |-> "none",
     text |-> IF outcome = "ok" THEN "response" ELSE "Error analyzing with LLM"]

\* the try block of analyze_test_patterns (lines 281-299)
AnalyzePatternsRemote(outcome) ==
    [raised |-> "none",
     text |-> IF outcome = "ok" THEN "response" ELSE "Error analyzing test patterns"]

\* test_status of _format_profiling_results
TestStatus(profile) ==
    IF ~ContainsFailed(Lower(profile.test_output)) THEN "PASSED" ELSE "FAILED"

\* the remote analysis call of the mode and the dict the analyzer method
\* returns (lines 229-235, 281-299, 313-322)
Analyze ==
    /\ pc = "llm"
    /\ \E outcome \in RemoteOutcomes :
          LET a == IF mode = "patterns" THEN AnalyzePatternsRemote(outcome)
                   ELSE AnalyzeWithLlm(outcome)
          IN  /\ remote' = outcome
              /\ IF a.raised = "none"
                 THEN /\ result' = [ready |-> TRUE, profiles |-> profiles,
                                    analysis |-> a.text,
                                    test_status |-> IF mode = "single"
                                                    THEN TestStatus(profiles[1])
                                                    ELSE ""]
                      /\ pc' = "plot"
                      /\ UNCHANGED raised
                 ELSE /\ raised' = a.raised
                      /\ pc' = "handler"
                      /\ UNCHANGED result
    /\ UNCHANGED <<mode, files, cur, tracing, profiling, idx, test_output, outcomes,
                   invoked, events, run_state, profiles, exitcode, histVars, raceVars>>

\* if args.history: plot_result = analyzer.plot_performance_history(args.test_file)
Plot ==
    /\ pc = "plot"
    /\ \E history \in BOOLEAN :
          IF history
          THEN LET q == PlotPerformanceHistory(history_file, Paths[1])
               IN  /\ query_result' = [path |-> Paths[1], raised |-> q.raised,
                                       rows |-> q.rows, message |-> q.message]
                   /\ raised' = q.raised
                   /\ pc' = IF q.raised = "none" THEN "output" ELSE "handler"
          ELSE /\ pc' = "output"
               /\ UNCHANGED <<query_result, raised>>
    /\ UNCHANGED <<mode, files, cur, tracing, profiling, idx, test_output, outcomes,
                   invoked, events, run_state, profiles, result, exitcode, remote,
                   history_file, clock, expected, saves, save_result, raceVars>>

\* the results are printed or written to args.output; return 0
Output ==
    /\ pc = "output"
    /\ exitcode' = 0
    /\ pc' = "exit"
    /\ UNCHANGED <<mode, files, cur, tracing, profiling, idx, test_output, outcomes,
                   invoked, events, run_state, profiles, result, raised, remote,
                   histVars, raceVars>>

\* except Exception as e: print(f"Error: {str(e)}"); return 1
Handler ==
    /\ pc = "handler"
    /\ exitcode' = 1
    /\ pc' = "exit"
    /\ UNCHANGED <<mode, files, cur, tracing, profiling, idx, test_output, outcomes,
                   invoked, events, run_state, profiles, result, raised, remote,
                   histVars, raceVars>>

Next ==
    \/ MainStart
    \/ TraceStart
    \/ LoadModule
    \/ EnableProfiler
    \/ RecordStart
    \/ LoopSkip
    \/ LoopTest
    \/ LoopEnd
    \/ DisableProfiler
    \/ GetTracedMemory
    \/ TraceStop
    \/ BuildRecord
    \/ SecondRun
    \/ SaveProfile
    \/ Analyze
    \/ Plot
    \/ Output
    \/ Handler

Spec == Init /\ [][Next]_vars

(***************************************************************************)
(* Claims about one command-line invocation.                               *)
(***************************************************************************)
\* the latest call of run_test_with_profiling has returned or raised
RunOver == run_state \in {"returned", "raised"}

\* C1: once run_test_with_profiling has returned or raised, neither
\* tracemalloc nor the cProfile profiler is still active.
InstrumentsStoppedOnExit == RunOver => (~tracing /\ ~profiling)

\* the test_ names of a loaded file, in the order dir() lists them
TestNamesOf(file) == SelectSeq(Dir(file), StartsWithTest)

\* C2: when run_test_with_profiling is over for a file that loaded, every
\* test_ name of the file was called and has one recorded outcome, in the
\* order of enumeration.
EveryTestRecorded ==
    (RunOver /\ files[cur].kind = "ok") =>
        /\ invoked = TestNamesOf(files[cur])
        /\ [i \in 1..Len(outcomes) |-> outcomes[i].name] = TestNamesOf(files[cur])

\* the lines a file's tests produce when the file is run alone
RECURSIVE LinesOf(_, _)
LinesOf(file, names) ==
    IF names = << >> THEN << >>
    ELSE LET name == Head(names)
             b == file.tests[name]
         IN  <<IF Returns(b) THEN PassedLine(name) ELSE FailedLine(name, ExcMessage(b))>>
                 \o LinesOf(file, Tail(names))

\* the file loads and none of its tests raises past the loop
RunsAlone(file) ==
    file.kind = "ok" /\ \A n \in DOMAIN file.tests : file.tests[n] # "raise_base"

\* C4: when compare_implementations(A, B) is over, a candidate that fails to
\* load has not kept the other from being run, and the result carries the
\* record of a candidate A that runs, with the outcomes A has when run alone.
ComparisonIsolated ==
    (mode = "compare" /\ pc = "exit") =>
        /\ (RunsAlone(files[1]) /\ files[2].kind # "ok") =>
              /\ result.ready
              /\ result.profiles[1].test_output
                     = JoinLines(LinesOf(files[1], TestNamesOf(files[1])))
        /\ files[1].kind # "ok" => cur = 2

\* C5: the status reported for a profile record is FAILED exactly when one
\* of its test outcomes is failed.
StatusFailedIffOutcomeFailed ==
    (result.ready /\ mode = "single") =>
        (result.test_status = "FAILED"
            <=> \E i \in 1..Len(result.profiles[1].outcomes) :
                   result.profiles[1].outcomes[i].status = "failed")

\* C7: a called test that raises is recorded as failed with a non-empty
\* detail, and one that returns is recorded as passed.
OutcomeFollowsBehaviour ==
    \A i \in 1..Len(invoked) :
        LET b == files[cur].tests[invoked[i]]
        IN  /\ i <= Len(outcomes)
            /\ outcomes[i].name = invoked[i]
            /\ Returns(b) => outcomes[i].status = "passed"
            /\ ~Returns(b) => (outcomes[i].status = "failed" /\ outcomes[i].detail # << >>)

RemoteFailures == RemoteOutcomes \ {"ok"}
ErrorTexts == {"Error analyzing with LLM", "Error analyzing test patterns"}

\* C8: a failed remote analysis call raises nothing in any mode: the
\* analyzer method returns the profile records it collected with an error
\* text as the analysis, and main ends with 1 only through an error that
\* is not the remote call's.
RemoteFailureNotRaised ==
    /\ raised # "RequestException"
    /\ remote \in RemoteFailures =>
          /\ result.ready
          /\ result.profiles = profiles
          /\ Len(profiles) = (IF mode = "compare" THEN 2 ELSE 1)
          /\ result.analysis \in ErrorTexts
          /\ pc \in {"plot", "output", "handler", "exit"}
          /\ pc = "handler" => raised = "JSONDecodeError" /\ query_result.raised = raised
          /\ (pc = "exit" /\ raised = "none") => exitcode = 0

\* a comparison ended with 0 after the remote call got a non-2xx response
RemoteFailureWitness ==
    /\ pc = "exit" /\ exitcode = 0
    /\ remote = "http_error"
    /\ mode = "compare"
    /\ result.analysis = "Error analyzing with LLM"
    /\ Len(result.profiles) = 2

\* the place of an event in the order of run_test_with_profiling
Rank(e) ==
    CASE e = "trace_start" -> 1
      [] e = "profile_start" -> 2
      [] e = "start_time" -> 3
      [] e = "test" -> 4
      [] e = "end_time" -> 5
      [] e = "profile_stop" -> 6
      [] e = "read_memory" -> 7
      [] e = "trace_stop" -> 8

====
